---------------------------- MODULE Spec2Model ----------------------------
(***************************************************************************)
(* Model of the Shopify -> Bloomreach catalog export:                      *)
(*   src/src/bloomreach_generics.py  (namespacing stage, mapping tables,   *)
(*                                    reference resolver, pipeline driver) *)
(*   src/src/bloomreach_products.py  (derived-field stage)                 *)
(*                                                                         *)
(* Python values are records [t, n, s] of one shape, so that any two       *)
(* values can be compared:                                                 *)
(*   t = "null" | "int" | "bool" | "str" | "list" | "dict"                 *)
(*   n = the number of an int, 0/1 of a bool, 0 otherwise                  *)
(*   s = <<chars>> for a str (one element: the sequence of its chars),     *)
(*       the items of a list (each a str's chars, or NoneTok),             *)
(*       <<k1, v1, k2, v2, ...>> for a dict in insertion order (each key   *)
(*       a str's chars, each value a str's chars or NoneTok).              *)
(* A char is a TLA+ string of length one.  Attribute keys are TLA+ strings.*)
(***************************************************************************)
EXTENDS Integers, Sequences, FiniteSets, TLC

(***************************************************************************)
(* Python values                                                           *)
(***************************************************************************)
NoneTok == << "<None>" >>

Null == [t |-> "null", n |-> 0, s |-> << >>]
IntV(i) == [t |-> "int", n |-> i, s |-> << >>]
BoolV(b) == [t |-> "bool", n |-> IF b THEN 1 ELSE 0, s |-> << >>]
StrV(chars) == [t |-> "str", n |-> 0, s |-> << chars >>]
ListV(items) == [t |-> "list", n |-> 0, s |-> items]
DictV(kvs) == [t |-> "dict", n |-> 0, s |-> kvs]

\* An item of a list or a value of a dict, as a value of its own.
Wrap(e) == IF e = NoneTok THEN Null ELSE StrV(e)

\* Python's truth value of an object: bool(x).
Truthy(x) ==
  CASE x.t = "null" -> FALSE
    [] x.t = "int"  -> x.n # 0
    [] x.t = "bool" -> x.n = 1
    [] x.t = "str"  -> x.s[1] # << >>
    [] OTHER        -> x.s # << >>

IsStr(x) == x.t = "str"
IsList(x) == x.t = "list"
IsDict(x) == x.t = "dict"

\* The outcome of a call: a returned value, or a raised exception.
Ok(v) == [ok |-> TRUE, val |-> v]
Raise == [ok |-> FALSE, val |-> Null]

(***************************************************************************)
(* str methods and the regular expressions of the transforms               *)
(***************************************************************************)
Whitespace == {" "}
Digits == {"0", "1", "8"}

RECURSIVE LStrip(_)
LStrip(c) == IF c # << >> /\ Head(c) \in Whitespace THEN LStrip(Tail(c)) ELSE c

RECURSIVE RStrip(_)
RStrip(c) ==
  IF c # << >> /\ c[Len(c)] \in Whitespace THEN RStrip(SubSeq(c, 1, Len(c) - 1)) ELSE c

\* str.strip()
Strip(c) == RStrip(LStrip(c))

\* str.split(sep): the pieces between the separators; "" splits to [""].
RECURSIVE SplitAcc(_, _, _)
SplitAcc(c, sep, cur) ==
  IF c = << >> THEN << cur >>
  ELSE IF Head(c) = sep THEN << cur >> \o SplitAcc(Tail(c), sep, << >>)
  ELSE SplitAcc(Tail(c), sep, Append(cur, Head(c)))

Split(c, sep) == SplitAcc(c, sep, << >>)

\* sep.join(items)
RECURSIVE Join(_, _)
Join(items, sep) ==
  IF items = << >> THEN << >>
  ELSE IF Len(items) = 1 THEN items[1]
  ELSE items[1] \o sep \o Join(Tail(items), sep)

\* The chars of c that are in (keep = TRUE) or not in (keep = FALSE) class.
RECURSIVE FilterChars(_, _, _)
FilterChars(c, class, keep) ==
  IF c = << >> THEN << >>
  ELSE IF (Head(c) \in class) = keep
       THEN << Head(c) >> \o FilterChars(Tail(c), class, keep)
       ELSE FilterChars(Tail(c), class, keep)

\* re.sub(r"[^\d.]+", "", s)
ReSubNonNumeric(c) == FilterChars(c, Digits \cup {"."}, TRUE)

\* re.sub(r"[\d.\s]+", "", s)
ReSubNumeric(c) == FilterChars(c, Digits \cup {"."} \cup Whitespace, FALSE)

\* The mutant of DedupAcc: every item is kept.
KeepAll(xs, seen) == xs

\* The items of a sequence without repetition, in first-occurrence order:
\* [x for x in xs if not (x in seen or seen.add(x))]
RECURSIVE DedupAcc(_, _)
DedupAcc(xs, seen) ==
  IF xs = << >> THEN << >>
  ELSE IF Head(xs) \in seen THEN DedupAcc(Tail(xs), seen)
  ELSE << Head(xs) >> \o DedupAcc(Tail(xs), seen \cup {Head(xs)})

Range(f) == {f[i] : i \in DOMAIN f}


(***************************************************************************)
(* dict and JSON                                                           *)
(***************************************************************************)
\* The keys of a dict's <<k1, v1, k2, v2, ...>>, in insertion order.
DictKeys(kvs) == [i \in 1..(Len(kvs) \div 2) |-> kvs[2 * i - 1]]

HasKey(kvs, k) == \E i \in 1..(Len(kvs) \div 2) : kvs[2 * i - 1] = k

\* d[k] of a dict that has the key k (the item stored under it).
DictItem(kvs, k) == kvs[2 * (CHOOSE i \in 1..(Len(kvs) \div 2) : kvs[2 * i - 1] = k)]

\* d[k] = v of an insertion-ordered dict: a present key keeps its place.
DictPut(kvs, k, v) ==
  IF HasKey(kvs, k)
  THEN [j \in 1..Len(kvs) |->
          IF j % 2 = 0 /\ kvs[j - 1] = k THEN v ELSE kvs[j]]
  ELSE kvs \o << k, v >>

Quote(c) == << "\"" >> \o c \o << "\"" >>

JsonItem(e) == IF e = NoneTok THEN << "n", "u", "l", "l" >> ELSE Quote(e)

\* The JSON text of a list or dict of strings, with the given separators.
JsonTextSep(v, itemSep, keySep) ==
  IF IsList(v)
  THEN << "[" >> \o Join([i \in 1..Len(v.s) |-> JsonItem(v.s[i])], itemSep) \o << "]" >>
  ELSE << "{" >>
       \o Join([i \in 1..(Len(v.s) \div 2) |->
                  Quote(v.s[2 * i - 1]) \o keySep \o JsonItem(v.s[2 * i])], itemSep)
       \o << "}" >>

\* The compact text the source system stores in a metafield value.
JsonText(v) == JsonTextSep(v, << "," >>, << ":" >>)

\* json.dumps(v): Python's default separators ", " and ": ".
JsonDumps(v) == JsonTextSep(v, << ",", " " >>, << ":", " " >>)

\* The structured values whose JSON text occurs among the modelled inputs.
JsonUniverse ==
  { ListV(<< >>),
    ListV(<< <<"a">> >>),
    ListV(<< <<" ", "a">>, <<"b">> >>),
    ListV(<< <<"g1">>, <<"g2">> >>),
    DictV(<< >>),
    DictV(<< <<"Height">>, <<"1", "0", " ", "c", "m">> >>),
    DictV(<< <<"Weight">>, <<" ", "8", ".", "1", "k", "g">>, <<"Width">>, NoneTok >>) }

\* json.loads(text) of a str: the value whose JSON text it is, or
\* JSONDecodeError.  Every modelled str that is valid JSON is the text of a
\* value of JsonUniverse.
JsonLoads(c) ==
  IF \E v \in JsonUniverse : c \in {JsonText(v), JsonDumps(v)}
  THEN Ok(CHOOSE v \in JsonUniverse : c \in {JsonText(v), JsonDumps(v)})
  ELSE Raise

\* (json.loads(x) if isinstance(x, str) else x)
LoadsIfStr(x) == IF IsStr(x) THEN JsonLoads(x.s[1]) ELSE Ok(x)

(***************************************************************************)
(* Reference resolver: the graph service and the per-chunk processing      *)
(***************************************************************************)
CHUNK_SIZE == 100

\* What the service can answer to one query: text that json.loads rejects,
\* JSON that is not an object, or an object with data.nodes.
ResponseKinds == {"undecodable", "nondict", "ok"}

\* The metaobject the service holds for identifier g (a number): one node
\* per identifier, null for an identifier it does not know.  A field has a
\* key, a value, and the transformedSrc of its referenced image ("" when the
\* field has no reference).  Two consecutive identifiers share a label.
LabelOf(g) == "L" \o ToString(g \div 2)
UrlOf(g) == "U" \o ToString(g)

NodeOf(g) ==
  CASE g % 5 = 0 -> [null |-> TRUE, fields |-> << >>]
    [] g % 5 = 1 -> [null |-> FALSE, fields |->
                       << [key |-> "label", value |-> LabelOf(g), image |-> ""],
                          [key |-> "image", value |-> "gid", image |-> UrlOf(g)] >>]
    [] g % 5 = 2 -> [null |-> FALSE, fields |->
                       << [key |-> "label", value |-> LabelOf(g), image |-> ""] >>]
    [] g % 5 = 3 -> [null |-> FALSE, fields |->
                       << [key |-> "image", value |-> "gid", image |-> UrlOf(g)] >>]
    [] OTHER     -> [null |-> FALSE, fields |->
                       << [key |-> "label", value |-> LabelOf(g), image |-> UrlOf(g)],
                          [key |-> "label", value |-> LabelOf(g + 2), image |-> ""] >>]

\* graphql_client.execute(query, {"ids": chunk}) answering with the given kind.
Execute(chunk, kind) ==
  [kind |-> kind,
   nodes |-> IF kind = "ok" THEN [j \in 1..Len(chunk) |-> NodeOf(chunk[j])] ELSE << >>]

\* gid_list[i:i + CHUNK_SIZE] with the 0-based offset i.
Chunk(gids, off) ==
  SubSeq(gids, off + 1, IF off + CHUNK_SIZE < Len(gids) THEN off + CHUNK_SIZE ELSE Len(gids))

\* The field loop that keeps the last label and the last image of a node.
RECURSIVE ScanFields(_, _, _)
ScanFields(fields, label, image_url) ==
  IF fields = << >> THEN [label |-> label, image_url |-> image_url]
  ELSE LET field == Head(fields)
       IN ScanFields(Tail(fields),
                     IF field.key = "label" THEN field.value ELSE label,
                     IF field.image # "" THEN field.image ELSE image_url)

\* The field loop of get_metaobject_labels_only: the first label, then break.
RECURSIVE FirstLabel(_)
FirstLabel(fields) ==
  IF fields = << >> THEN ""
  ELSE IF Head(fields).key = "label" THEN Head(fields).value
  ELSE FirstLabel(Tail(fields))

\* The body of "for node in nodes" in each resolver function, on the
\* aggregate acc:
\*   labels_with_images: if label and image_url: enriched_items[label] = image_url
\*   labels_only:        if label: label_list.append(label)
\*   image_urls:         if label: results_with_images.append({...}) if image_url
\*                                 else labels_without_images.append(label)
NodeStep(f, acc, node) ==
  LET r == ScanFields(node.fields, "", "")
      first == FirstLabel(node.fields)
  IN IF node.null THEN acc
     ELSE CASE f = "get_metaobject_labels_with_images" ->
                 IF r.label # "" /\ r.image_url # ""
                 THEN [acc EXCEPT !.enriched_items =
                         DictPut(@, << r.label >>, << r.image_url >>)]
                 ELSE acc
            [] f = "get_metaobject_labels_only" ->
                 IF first # "" THEN [acc EXCEPT !.label_list = Append(@, first)]
                 ELSE acc
            [] OTHER ->
                 IF r.label = "" THEN acc
                 ELSE IF r.image_url # ""
                 THEN [acc EXCEPT !.results_with_images =
                         Append(@, [name |-> r.label, imageUrl |-> r.image_url])]
                 ELSE [acc EXCEPT !.labels_without_images = Append(@, r.label)]

\* "for node in nodes": NodeStep over nodes[lo..hi] in order (split in
\* halves, so that a chunk of 100 nodes needs no deep recursion).
RECURSIVE ProcessNodes(_, _, _, _, _)
ProcessNodes(f, nodes, lo, hi, acc) ==
  IF lo > hi THEN acc
  ELSE IF lo = hi THEN NodeStep(f, acc, nodes[lo])
  ELSE LET mid == (lo + hi) \div 2
           left == ProcessNodes(f, nodes, lo, mid, acc)
       IN \* the test makes TLC compute the left half before it descends
          IF DOMAIN left = DOMAIN acc
          THEN ProcessNodes(f, nodes, mid + 1, hi, left)
          ELSE acc

\* The aggregate of a resolver call before its first chunk.
EmptyAcc ==
  [enriched_items |-> << >>, label_list |-> << >>,
   results_with_images |-> << >>, labels_without_images |-> << >>]

\* One pass of the chunk loop body after the response has arrived: the new
\* aggregate, or the exception that leaves the function.
\*   labels_with_images, labels_only: JSONDecodeError -> continue;
\*     result.get on a non-dict raises AttributeError.
\*   image_urls: JSONDecodeError is re-raised; a non-dict -> continue.
ProcessResponse(f, response, acc) ==
  LET processed == ProcessNodes(f, response.nodes, 1, Len(response.nodes), acc)
  IN IF f = "get_image_urls_from_metaobjects"
     THEN IF response.kind = "undecodable" THEN [ok |-> FALSE, val |-> acc]
          ELSE IF response.kind = "nondict" THEN Ok(acc)
          ELSE Ok(processed)
     ELSE IF response.kind = "undecodable" THEN Ok(acc)
          ELSE IF response.kind = "nondict" THEN [ok |-> FALSE, val |-> acc]
          ELSE Ok(processed)

\* What each function returns from its aggregate after the loop.
ResolverReturn(f, acc) ==
  CASE f = "get_metaobject_labels_with_images" ->
         StrV(JsonDumps(DictV(acc.enriched_items)))
    [] f = "get_metaobject_labels_only" ->
         IF acc.label_list # << >>
         THEN ListV(<< Join([j \in 1..Len(acc.label_list) |-> << acc.label_list[j] >>],
                            << ",", " " >>) >>)
         ELSE ListV(<< >>)
    [] OTHER ->
         IF acc.results_with_images # << >>
         THEN [t |-> "list", n |-> 0, s |-> acc.results_with_images]
         ELSE ListV([j \in 1..Len(acc.labels_without_images) |->
                       << acc.labels_without_images[j] >>])

\* Number of passes of range(0, n, CHUNK_SIZE).
RangeCount(n) == (n + CHUNK_SIZE - 1) \div CHUNK_SIZE

\* A whole resolver call on a list of identifiers, the service answering
\* chunk k with kinds[k]: the returned value, or the exception.
RECURSIVE ResolveLoop(_, _, _, _, _)
ResolveLoop(f, gids, off, agg, kinds) ==
  IF off >= Len(gids) THEN Ok(ResolverReturn(f, agg))
  ELSE LET r == ProcessResponse(f, Execute(Chunk(gids, off), Head(kinds)), agg)
       IN IF r.ok THEN ResolveLoop(f, gids, off + CHUNK_SIZE, r.val, Tail(kinds))
          ELSE Raise

\* The identifier the service sees in a text of the record.
GidNumber(c) ==
  CASE c = << "g1" >> -> 1
    [] c = << "g2" >> -> 2
    [] OTHER -> 0

\* get_metaobject_labels_with_images(x, graphql_client) as the transform of a
\* rule, for any value x: every outcome the service's answers allow.
get_metaobject_labels_with_images(x) ==
  IF ~Truthy(x) THEN {Ok(StrV(<< "{", "}" >>))}
  ELSE LET l == LoadsIfStr(x)
           g == l.val
       IN IF ~l.ok THEN {Raise}
          ELSE IF IsList(g)
          THEN {ResolveLoop("get_metaobject_labels_with_images",
                            [j \in 1..Len(g.s) |-> GidNumber(g.s[j])], 0, EmptyAcc, kinds) :
                  kinds \in [1..RangeCount(Len(g.s)) -> ResponseKinds]}
          ELSE IF IsDict(g) /\ g.s = << >> THEN {Ok(StrV(JsonDumps(DictV(<< >>))))}
          ELSE {Raise}

(***************************************************************************)
(* Mapping tables and their transforms                                     *)
(***************************************************************************)
Rule(source_key, target_key, save_original, transform, field) ==
  [source_key |-> source_key, target_key |-> target_key,
   save_original |-> save_original, transform |-> transform, field |-> field]

PRODUCT_VARIANT_MAPPINGS ==
  << Rule("sv.sku", "skuid", 1, "identity", << >>),
     Rule("sv.image", "large_image", 1, "image_urls", << >>),
     Rule("sv.image", "sv.large_image", 1, "image_urls", << >>),
     Rule("sv.availableForSale", "is_sellable", 1, "identity", << >>),
     Rule("sv.inventoryQuantity", "stock_level", 1, "identity", << >>),
     Rule("sp.vendor", "brand", 1, "identity", << >>),
     Rule("sp.title", "title", 1, "identity", << >>),
     Rule("sp.tags", "tags", 1, "split_if_str", << >>),
     Rule("sp.descriptionHtml", "description", 1, "strip", << >>),
     Rule("sp.publishedAt", "launch_date", 1, "identity", << >>) >>

PRODUCT_METAFIELD_MAPPINGS ==
  << Rule("spm.custom.tags", "keywords", 1, "set_split", << >>),
     Rule("svm.c_f.property", "height", 1, "extract_numeric_field", << "Height" >>),
     Rule("svm.c_f.property", "width", 1, "extract_numeric_field", << "Width" >>),
     Rule("svm.c_f.property", "sv.weight", 1, "extract_numeric_field", << "Weight" >>),
     Rule("svm.c_f.property", "sv.weightunit", 1, "extract_unit_field", << "Weight" >>),
     Rule("svm.custom.buying_category_3", "leaf_categories", 1, "strip_each", << >>),
     Rule("svm.custom.variant_colour", "color", 1, "join_strip", << >>),
     Rule("svm.custom.variant_colour_group", "color_group", 1, "join_strip", << >>),
     Rule("spm.custom.legs", "legs", 1, "labels_with_images", << >>),
     Rule("spm.custom.material", "material", 1, "labels_with_images", << >>),
     Rule("svm.custom.product_labels_values", "labels", 1, "split_if_str", << >>) >>

\* The sequences that hold each element of the set S once: list(set(...)),
\* whose order Python does not fix.
Orderings(S) == {p \in [1..Cardinality(S) -> S] : Range(p) = S}

\* lambda x: [x["url"]] if isinstance(x, dict) else [img["url"] for img in x]
image_urls(x) ==
  IF IsDict(x)
  THEN IF HasKey(x.s, << "u", "r", "l" >>)
       THEN Ok(ListV(<< DictItem(x.s, << "u", "r", "l" >>) >>))
       ELSE Raise
  ELSE IF IsStr(x) THEN (IF x.s[1] = << >> THEN Ok(ListV(<< >>)) ELSE Raise)
  ELSE IF IsList(x) THEN (IF x.s = << >> THEN Ok(ListV(<< >>)) ELSE Raise)
  ELSE Raise

\* extract_numeric_field(field) and extract_unit_field(field):
\* re.sub(..., "", (json.loads(x) if isinstance(x, str) else x).get(field, "").strip())
extract_field(x, field, numeric) ==
  LET l == LoadsIfStr(x)
      got == IF HasKey(l.val.s, field) THEN DictItem(l.val.s, field) ELSE << >>
  IN IF ~l.ok \/ ~IsDict(l.val) THEN Raise
     ELSE IF got = NoneTok THEN Raise
     ELSE IF numeric THEN Ok(StrV(ReSubNonNumeric(Strip(got))))
     ELSE Ok(StrV(ReSubNumeric(Strip(got))))

\* [i.strip() for i in (json.loads(x) if isinstance(x, str) else x)], joined
\* with ", " when join is set.
strip_each(x, join) ==
  LET l == LoadsIfStr(x)
      items == IF IsDict(l.val) THEN DictKeys(l.val.s) ELSE l.val.s
      stripped == [j \in 1..Len(items) |-> Strip(items[j])]
  IN IF ~l.ok \/ ~(IsList(l.val) \/ IsDict(l.val)) THEN Raise
     ELSE IF \E j \in 1..Len(items) : items[j] = NoneTok THEN Raise
     ELSE IF join THEN Ok(StrV(Join(stripped, << ",", " " >>)))
     ELSE Ok(ListV(stripped))

\* transform(value) of a rule: the set of its possible outcomes (one, unless
\* the transform depends on set order or on the service).
TransformOutcomes(rule, x) ==
  CASE rule.transform = "identity" -> {Ok(x)}
    [] rule.transform = "image_urls" -> {image_urls(x)}
    [] rule.transform = "split_if_str" ->
         {IF IsStr(x) THEN Ok(ListV(Split(x.s[1], ","))) ELSE Ok(x)}
    [] rule.transform = "strip" -> {IF IsStr(x) THEN Ok(StrV(Strip(x.s[1]))) ELSE Raise}
    [] rule.transform = "set_split" ->
         IF IsStr(x) THEN {Ok(ListV(p)) : p \in Orderings(Range(Split(x.s[1], ",")))}
         ELSE {Raise}
    [] rule.transform = "extract_numeric_field" -> {extract_field(x, rule.field, TRUE)}
    [] rule.transform = "extract_unit_field" -> {extract_field(x, rule.field, FALSE)}
    [] rule.transform = "strip_each" -> {strip_each(x, FALSE)}
    [] rule.transform = "join_strip" -> {strip_each(x, TRUE)}
    [] OTHER -> get_metaobject_labels_with_images(x)

(***************************************************************************)
(* Bounds of the model                                                     *)
(***************************************************************************)
\* Fields and metafield entries read from one raw object.
MaxFields == 2
\* Rules in the table handed to apply_mappings.
MaxRules == 2

(***************************************************************************)
(* State.  Each specification below runs one function of the program; the  *)
(* variables of the others keep their initial values.                      *)
(***************************************************************************)
VARIABLES
  pc,              \* the control point of the running function
  budget,          \* what is left of the model's bound on the input read
  \* create_attributes / apply_mappings
  namespace,       \* create_attributes: "sp" or "sv"
  shopify_object,  \* create_attributes: the items read so far, in order
  attributes,      \* the attribute map being built (key -> value)
  attribute_name,  \* create_attributes: attribute_name / attr_key of the item
  value,           \* create_attributes: value of the item
  in_metafields,   \* create_attributes: inside the loop over a metafield list
  ri,              \* index of the next rule of the table
  flag_found,      \* create_attributes: flag_found
  mappings,        \* apply_mappings: the rules handed over so far, in order
  applied,         \* the last rule application: rule, input and outcome
  \* create_id / create_variants
  id_call,         \* create_id: its arguments and its result
  raw_variants,    \* create_variants: the raw variants read so far, in order
  variants,        \* create_variants: the output mapping id -> entry
  \* reference resolver
  fn,              \* which resolver function runs
  gid_list,        \* its list of identifiers
  i,               \* the offset of the chunk loop
  queries,         \* the chunks sent to the service so far, in order
  answers,         \* the kinds of the responses processed so far, in order
  acc,             \* the aggregate (enriched_items, label_list, ...)
  ret,             \* the returned value
  \* derived-field stage
  product,         \* create_product: the input product (its variants as read)
  out_product,     \* create_product: the output product
  \* pipeline driver
  lines,           \* the input lines read so far
  products,        \* create_products: the list of transformed records
  sink             \* the records written to the output file

engineVars ==
  << namespace, shopify_object, attributes, attribute_name, value,
     in_metafields, ri, flag_found, mappings, applied >>
idVars == << id_call, raw_variants, variants >>
resolverVars == << fn, gid_list, i, queries, answers, acc, ret >>
deriveVars == << product, out_product >>
driverVars == << lines, products, sink >>

vars == << pc, budget, engineVars, idVars, resolverVars, deriveVars, driverVars >>

(***************************************************************************)
(* Attribute maps                                                          *)
(***************************************************************************)
EmptyMap == [x \in {} |-> Null]

\* attributes[k] = v
Put(attrs, k, v) == [x \in DOMAIN attrs \cup {k} |-> IF x = k THEN v ELSE attrs[x]]

\* "sub in k" for the keys the model reads: k is sub between two affixes.
Affixes == {"", "Count", ".single_line_text_field", ".metaobject_reference"}
Contains(k, sub) == \E a \in Affixes, b \in Affixes : k = a \o sub \o b

NoRule == Rule("", "", 0, "", << >>)
NotApplied == [hit |-> FALSE, rule |-> NoRule, value |-> Null, out |-> Raise]

(***************************************************************************)
(* create_attributes (bloomreach_generics.py)                              *)
(***************************************************************************)
\* Inputs: the plain fields a raw product or variant may carry.
FieldSamples ==
  { [k |-> "descriptionHtml", v |-> StrV(<< " ", "a", " " >>)],
    [k |-> "descriptionHtml", v |-> Null],
    [k |-> "tags", v |-> StrV(<< "a", ",", "b" >>)],
    [k |-> "handle", v |-> StrV(<< "h" >>)],
    [k |-> "sku", v |-> StrV(<< "s" >>)],
    [k |-> "price", v |-> IntV(1)],
    [k |-> "image", v |-> DictV(<< << "u", "r", "l" >>, << "u" >> >>)],
    [k |-> "image", v |-> DictV(<< << "a", "l", "t" >>, << "x" >> >>)],
    [k |-> "image", v |-> Null],
    [k |-> "large_image", v |-> StrV(<< "a" >>)],
    [k |-> "variantsCount", v |-> IntV(1)],
    [k |-> "variants", v |-> ListV(<< >>)] }

\* Inputs: metafield entries.  A list-typed metafield stores JSON text.
MetafieldSamples ==
  { [namespace |-> "custom", key |-> "tags", type |-> "single_line_text_field",
     value |-> StrV(<< "b", ",", "a", ",", "b" >>)],
    [namespace |-> "custom", key |-> "tags", type |-> "list.single_line_text_field",
     value |-> StrV(JsonText(ListV(<< << "a" >> >>)))],
    [namespace |-> "custom", key |-> "legs", type |-> "list.metaobject_reference",
     value |-> StrV(JsonText(ListV(<< << "g1" >>, << "g2" >> >>)))],
    [namespace |-> "custom", key |-> "material", type |-> "list.metaobject_reference",
     value |-> StrV(<< >>)],
    [namespace |-> "c_f", key |-> "property", type |-> "json",
     value |-> StrV(JsonText(DictV(<< << "Height" >>, << "1", "0", " ", "c", "m" >> >>)))],
    [namespace |-> "c_f", key |-> "property", type |-> "json",
     value |-> StrV(JsonText(DictV(<< << "Weight" >>, << " ", "8", ".", "1", "k", "g" >>,
                                      << "Width" >>, NoneTok >>)))],
    [namespace |-> "custom", key |-> "buying_category_3",
     type |-> "list.single_line_text_field",
     value |-> StrV(JsonText(ListV(<< << " ", "a" >>, << "b" >> >>)))],
    [namespace |-> "custom", key |-> "variant_colour", type |-> "single_line_text_field",
     value |-> StrV(<< "a", ",", "b" >>)],
    [namespace |-> "custom", key |-> "product_labels_values",
     type |-> "single_line_text_field", value |-> StrV(<< "a", ",", "b" >>)],
    [namespace |-> "custom", key |-> "additional_label",
     type |-> "single_line_text_field", value |-> StrV(<< "a", ",", "c" >>)],
    [namespace |-> "custom", key |-> "care", type |-> "single_line_text_field",
     value |-> StrV(<< "a" >>)] }

\* Inputs: collections of a product.
CollectionSamples ==
  { << >>,
    << [title |-> << "T" >>, handle |-> << "t" >>] >>,
    << [title |-> << "T" >>, handle |-> << "t" >>],
       [title |-> << "S" >>, handle |-> << "s" >>] >> }

\* create_category_paths: one single-segment path {name, id} per collection.
create_category_paths(collections) ==
  [t |-> "list", n |-> 0,
   s |-> [j \in 1..Len(collections) |->
            << << "name" >>, collections[j].title, << "id" >>, collections[j].handle >>]]

KeysRead == {shopify_object[j].k : j \in 1..Len(shopify_object)}

\* The table the rule loop of the current item runs over.
Table == IF in_metafields THEN PRODUCT_METAFIELD_MAPPINGS ELSE PRODUCT_VARIANT_MAPPINGS

\* for k, v in shopify_object.items(): if "variants" in k: continue
ReadVariantsKey ==
  /\ pc = "ca_key" /\ budget > 0
  /\ \E f \in FieldSamples :
       /\ f.k \notin KeysRead
       /\ Contains(f.k, "variants")
       /\ shopify_object' = Append(shopify_object, f)
  /\ budget' = budget - 1
  /\ applied' = NotApplied
  /\ UNCHANGED << pc, namespace, attributes, attribute_name, value, in_metafields,
                  ri, flag_found, mappings >>
  /\ UNCHANGED << idVars, resolverVars, deriveVars, driverVars >>

\* elif "collections" in k: attributes["category_paths"] = create_category_paths(v)
ReadCollectionsKey ==
  /\ pc = "ca_key" /\ budget > 0
  /\ "collections" \notin KeysRead
  /\ ~Contains("collections", "variants") /\ ~Contains("collections", "metafields")
  /\ \E v \in CollectionSamples :
       /\ shopify_object' = Append(shopify_object, [k |-> "collections", v |-> Null])
       /\ attributes' = Put(attributes, "category_paths", create_category_paths(v))
  /\ budget' = budget - 1
  /\ applied' = NotApplied
  /\ UNCHANGED << pc, namespace, attribute_name, value, in_metafields, ri, flag_found,
                  mappings >>
  /\ UNCHANGED << idVars, resolverVars, deriveVars, driverVars >>

\* else: attr_key = namespace + "." + k; value = v; the rule loop starts
ReadField ==
  /\ pc = "ca_key" /\ budget > 0
  /\ \E f \in FieldSamples :
       /\ f.k \notin KeysRead
       /\ ~Contains(f.k, "variants") /\ ~Contains(f.k, "metafields")
       /\ ~Contains(f.k, "collections")
       /\ shopify_object' = Append(shopify_object, f)
       /\ attribute_name' = namespace \o "." \o f.k
       /\ value' = f.v
  /\ pc' = "ca_rule" /\ ri' = 1 /\ flag_found' = FALSE /\ in_metafields' = FALSE
  /\ budget' = budget - 1
  /\ applied' = NotApplied
  /\ UNCHANGED << namespace, attributes, mappings >>
  /\ UNCHANGED << idVars, resolverVars, deriveVars, driverVars >>

\* if "metafields" in k: for metafield in v: ...
ReadMetafieldsKey ==
  /\ pc = "ca_key"
  /\ "metafields" \notin KeysRead
  /\ ~Contains("metafields", "variants") /\ Contains("metafields", "metafields")
  /\ shopify_object' = Append(shopify_object, [k |-> "metafields", v |-> Null])
  /\ pc' = "ca_meta" /\ in_metafields' = TRUE
  /\ applied' = NotApplied
  /\ UNCHANGED << namespace, attributes, attribute_name, value, ri, flag_found,
                  mappings, budget >>
  /\ UNCHANGED << idVars, resolverVars, deriveVars, driverVars >>

\* One metafield of the list: its attribute name and its value, parsed from
\* JSON when the type contains "list".  json.loads is outside the rule's
\* try: its error leaves create_attributes.
ReadMetafield ==
  /\ pc = "ca_meta" /\ budget > 0
  /\ \E metafield \in MetafieldSamples :
       LET loaded == IF Contains(metafield.type, "list")
                     THEN JsonLoads(metafield.value.s[1])
                     ELSE Ok(metafield.value)
       IN /\ attribute_name' =
               namespace \o "m." \o metafield.namespace \o "." \o metafield.key
          /\ IF loaded.ok
             THEN /\ value' = loaded.val
                  /\ pc' = "ca_rule" /\ ri' = 1 /\ flag_found' = FALSE
             ELSE /\ pc' = "ca_raised"
                  /\ UNCHANGED << value, ri, flag_found >>
  /\ budget' = budget - 1
  /\ applied' = NotApplied
  /\ UNCHANGED << namespace, shopify_object, attributes, in_metafields, mappings >>
  /\ UNCHANGED << idVars, resolverVars, deriveVars, driverVars >>

\* The metafield list is exhausted: back to the loop over the object's keys.
EndMetafields ==
  /\ pc = "ca_meta"
  /\ pc' = "ca_key" /\ in_metafields' = FALSE
  /\ applied' = NotApplied
  /\ UNCHANGED << namespace, shopify_object, attributes, attribute_name, value, ri,
                  flag_found, mappings, budget >>
  /\ UNCHANGED << idVars, resolverVars, deriveVars, driverVars >>

\* The attribute map after one matching rule of create_attributes, given the
\* outcome of its transform: try: ... except Exception: attributes[target_key] = None
RuleEffect(attrs, rule, val, out) ==
  IF out.ok
  THEN LET withTarget == Put(attrs, rule.target_key, out.val)
       IN IF rule.save_original # 0
          THEN IF rule.source_key # rule.target_key
               THEN Put(withTarget, rule.source_key, val)
               ELSE Put(withTarget, rule.source_key \o "_key", val)
          ELSE withTarget
  ELSE Put(attrs, rule.target_key, Null)

\* One pass of "for source_key, target_key, save_original, transform in TABLE".
ApplyRule ==
  /\ pc = "ca_rule" /\ ri <= Len(Table)
  /\ LET rule == Table[ri]
     IN IF attribute_name = rule.source_key
        THEN \E out \in TransformOutcomes(rule, value) :
               /\ attributes' = RuleEffect(attributes, rule, value, out)
               /\ flag_found' = TRUE
               /\ applied' = [hit |-> TRUE, rule |-> rule, value |-> value, out |-> out]
        ELSE /\ applied' = NotApplied
             /\ UNCHANGED << attributes, flag_found >>
  /\ ri' = ri + 1
  /\ UNCHANGED << pc, namespace, shopify_object, attribute_name, value, in_metafields,
                  mappings, budget >>
  /\ UNCHANGED << idVars, resolverVars, deriveVars, driverVars >>

\* After the rule loop: if not flag_found: attributes[attribute_name] = value
EndRules ==
  /\ pc = "ca_rule" /\ ri > Len(Table)
  /\ attributes' = IF flag_found THEN attributes ELSE Put(attributes, attribute_name, value)
  /\ pc' = IF in_metafields THEN "ca_meta" ELSE "ca_key"
  /\ applied' = NotApplied
  /\ UNCHANGED << namespace, shopify_object, attribute_name, value, in_metafields, ri,
                  flag_found, mappings, budget >>
  /\ UNCHANGED << idVars, resolverVars, deriveVars, driverVars >>

\* return attributes
ReturnAttributes ==
  /\ pc = "ca_key"
  /\ pc' = "ca_done"
  /\ applied' = NotApplied
  /\ UNCHANGED << namespace, shopify_object, attributes, attribute_name, value,
                  in_metafields, ri, flag_found, mappings, budget >>
  /\ UNCHANGED << idVars, resolverVars, deriveVars, driverVars >>

(***************************************************************************)
(* apply_mappings (bloomreach_products.py)                                 *)
(***************************************************************************)
\* Inputs: the rules a catalog may put in the table handed to apply_mappings
\* (PRODUCT_MAPPINGS ships empty, with one rule as a commented example).
MappingPool ==
  { Rule(src, tgt, save, tr, << >>) :
      src \in {"sp.tags", "labels"}, tgt \in {"sp.tags", "labels"},
      save \in {0, 1}, tr \in {"identity", "split_if_str", "strip"} }

\* Inputs: the attribute maps handed to apply_mappings.
AttributeSamples ==
  { EmptyMap,
    [x \in {"sp.tags"} |-> StrV(<< " ", "a", ",", "b" >>)],
    [x \in {"sp.tags"} |-> ListV(<< << "a" >> >>)],
    [x \in {"sp.tags", "labels"} |->
       IF x = "labels" THEN Null ELSE StrV(<< "a", " " >>)] }

\* The attribute map after one rule of apply_mappings whose transform
\* returned: the transformed value always, the original if the flag is 1.
MappingEffect(attrs, rule, out) ==
  LET original_value == attrs[rule.source_key]
      withTarget == Put(attrs, rule.target_key, out.val)
  IN IF rule.save_original = 1
     THEN IF rule.source_key # rule.target_key
          THEN Put(withTarget, rule.source_key, original_value)
          ELSE Put(withTarget, rule.source_key \o "_key", original_value)
     ELSE withTarget

\* One pass of "for mapping in mappings".  transform_fn is called outside
\* any try: its exception leaves apply_mappings.
ApplyMapping ==
  /\ pc = "am_loop" /\ budget > 0
  /\ \E rule \in MappingPool :
       /\ mappings' = Append(mappings, rule)
       /\ IF rule.source_key \notin DOMAIN attributes
          THEN /\ applied' = NotApplied
               /\ UNCHANGED << pc, attributes >>
          ELSE \E out \in TransformOutcomes(rule, attributes[rule.source_key]) :
                 /\ applied' = [hit |-> TRUE, rule |-> rule,
                                value |-> attributes[rule.source_key], out |-> out]
                 /\ IF out.ok
                    THEN /\ attributes' = MappingEffect(attributes, rule, out)
                         /\ UNCHANGED pc
                    ELSE /\ pc' = "am_raised"
                         /\ UNCHANGED attributes
  /\ budget' = budget - 1
  /\ UNCHANGED << namespace, shopify_object, attribute_name, value, in_metafields, ri,
                  flag_found >>
  /\ UNCHANGED << idVars, resolverVars, deriveVars, driverVars >>

\* The table is exhausted: apply_mappings returns.
ReturnMappings ==
  /\ pc = "am_loop"
  /\ pc' = "am_done"
  /\ applied' = NotApplied
  /\ UNCHANGED << namespace, shopify_object, attributes, attribute_name, value,
                  in_metafields, ri, flag_found, mappings, budget >>
  /\ UNCHANGED << idVars, resolverVars, deriveVars, driverVars >>

(***************************************************************************)
(* Initial values of the functions that do not run                         *)
(***************************************************************************)
NoCall == [object |-> EmptyMap, identifiers |-> Null, id |-> Null]
NoProduct == [id |-> Null, attributes |-> EmptyMap, variants |-> EmptyMap]

EngineIdle ==
  /\ namespace = "" /\ shopify_object = << >> /\ attributes = EmptyMap
  /\ attribute_name = "" /\ value = Null /\ in_metafields = FALSE /\ ri = 1
  /\ flag_found = FALSE /\ mappings = << >> /\ applied = NotApplied
IdIdle == id_call = NoCall /\ raw_variants = << >> /\ variants = EmptyMap
ResolverIdle ==
  /\ fn = "" /\ gid_list = << >> /\ i = 0 /\ queries = << >> /\ answers = << >>
  /\ acc = EmptyAcc /\ ret = Null
DeriveIdle == product = NoProduct /\ out_product = NoProduct
\* The output file before gzip.open(fp_out, 'wb'): not opened, nothing written.
NoSink == [opened |-> FALSE, records |-> << >>]
DriverIdle == lines = << >> /\ products = << >> /\ sink = NoSink

(***************************************************************************)
(* Specification of the mapping engine: one call of create_attributes on   *)
(* any raw object, or one call of apply_mappings on any table              *)
(***************************************************************************)
InitEngine ==
  /\ \/ /\ pc = "ca_key" /\ namespace \in {"sp", "sv"} /\ attributes = EmptyMap
        /\ budget = MaxFields
     \/ /\ pc = "am_loop" /\ namespace = "" /\ attributes \in AttributeSamples
        /\ budget = MaxRules
  /\ shopify_object = << >> /\ attribute_name = "" /\ value = Null
  /\ in_metafields = FALSE /\ ri = 1 /\ flag_found = FALSE /\ mappings = << >>
  /\ applied = NotApplied
  /\ IdIdle /\ ResolverIdle /\ DeriveIdle /\ DriverIdle

NextEngine ==
  \/ ReadVariantsKey
  \/ ReadCollectionsKey
  \/ ReadField
  \/ ReadMetafieldsKey
  \/ ReadMetafield
  \/ EndMetafields
  \/ ApplyRule
  \/ EndRules
  \/ ReturnAttributes
  \/ ApplyMapping
  \/ ReturnMappings

SpecEngine == InitEngine /\ [][NextEngine]_vars

(***************************************************************************)
(* Claims about the mapping engine (checked under SpecEngine)              *)
(***************************************************************************)
\* A rule whose source key was present has just been applied and its
\* transform raised.
TransformFailed == applied.hit /\ ~applied.out.ok

\* The engine is still running or has returned: no exception left it.
NotPropagated == pc \notin {"ca_raised", "am_raised"}

\* C1: in both implementations of the engine, when the transform of a rule
\* whose source key is present raises, the target key is set to null, the
\* error does not reach the caller, and the loop goes on with the remaining
\* rules and keys.
C1_TransformErrorContained ==
  TransformFailed =>
    /\ NotPropagated
    /\ applied.rule.target_key \in DOMAIN attributes
    /\ attributes[applied.rule.target_key] = Null
    /\ pc \in {"ca_rule", "am_loop"}

\* The key under which a preserving rule keeps the original value.
PreservedKey(rule) ==
  IF rule.source_key # rule.target_key THEN rule.source_key
  ELSE rule.source_key \o "_key"

\* C2: after a rule with preserveSource = 1 whose source key was present,
\* the target key holds the transformed value and the original value is kept
\* under the source key (under source key + "_key" when source and target
\* are the same key), also when the transform fails.  (A transform error
\* that leaves the engine is C1's subject: the rule has no "after" then.)
C2_SourcePreserved ==
  (applied.hit /\ applied.rule.save_original = 1 /\ NotPropagated) =>
    /\ applied.out.ok =>
         /\ applied.rule.target_key \in DOMAIN attributes
         /\ attributes[applied.rule.target_key] = applied.out.val
    /\ PreservedKey(applied.rule) \in DOMAIN attributes
    /\ attributes[PreservedKey(applied.rule)] = applied.value

(***************************************************************************)
(* create_id (bloomreach_generics.py)                                      *)
(***************************************************************************)
NOIDENTIFIERFOUND == StrV(<< "NOIDENTIFIERFOUND" >>)

\* The Python str of a sequence of chars, as a key of a mapping.
RECURSIVE KeyOf(_)
KeyOf(c) == IF c = << >> THEN "" ELSE Head(c) \o KeyOf(Tail(c))

\* identifiers = ["id"] if identifiers is None else identifiers.split(",")
IdentifierList(identifiers) ==
  IF identifiers = Null THEN << "id" >>
  ELSE LET pieces == Split(identifiers.s[1], ",")
       IN [j \in 1..Len(pieces) |-> KeyOf(pieces[j])]

\* The mutant of IdLoop: without the fallback to the object's "id".
RECURSIVE IdLoopNoFallback(_, _, _)
IdLoopNoFallback(object, idents, id) ==
  IF idents = << >> THEN id
  ELSE IF Head(idents) \in DOMAIN object /\ Truthy(object[Head(idents)])
  THEN object[Head(idents)]
  ELSE IdLoopNoFallback(object, Tail(idents), id)

\* for identifier in identifiers: the first identifier present and truthy
\* ends the loop; every identifier that is not sets id to the object's "id"
\* when the object has that key.
RECURSIVE IdLoop(_, _, _)
IdLoop(object, idents, id) ==
  IF idents = << >> THEN id
  ELSE IF Head(idents) \in DOMAIN object /\ Truthy(object[Head(idents)])
  THEN object[Head(idents)]
  ELSE IF "id" \in DOMAIN object
  THEN IdLoop(object, Tail(idents), object["id"])
  ELSE IdLoop(object, Tail(idents), id)

create_id(object, identifiers) ==
  IdLoop(object, IdentifierList(identifiers), NOIDENTIFIERFOUND)

\* Inputs: the values an identifier field may hold.
IdValues == {StrV(<< "x" >>), StrV(<< "y" >>), StrV(<< >>), Null}

\* Inputs: raw objects over the fields id, sku and handle.
IdObjects ==
  UNION {[K -> IdValues] : K \in SUBSET {"id", "sku", "handle"}}

\* Inputs: the --pid-props / --vid-props settings (None: not configured).
IdentifierSamples ==
  { Null,
    StrV(<< "i", "d" >>),
    StrV(<< "s", "k", "u" >>),
    StrV(<< "h", "a", "n", "d", "l", "e" >>),
    StrV(<< "h", "a", "n", "d", "l", "e", ",", "s", "k", "u" >>),
    StrV(<< "s", "k", "u", ",", "i", "d" >>),
    StrV(<< >>) }

\* One call of create_id.
CallCreateId ==
  /\ pc = "id_call"
  /\ id_call' = [id_call EXCEPT !.id = create_id(id_call.object, id_call.identifiers)]
  /\ pc' = "id_returned"
  /\ UNCHANGED << budget, raw_variants, variants >>
  /\ UNCHANGED << engineVars, resolverVars, deriveVars, driverVars >>

InitId ==
  /\ pc = "id_call" /\ budget = 0
  /\ id_call \in [object : IdObjects, identifiers : IdentifierSamples, id : {Null}]
  /\ raw_variants = << >> /\ variants = EmptyMap
  /\ EngineIdle /\ ResolverIdle /\ DeriveIdle /\ DriverIdle

NextId == CallCreateId

SpecId == InitId /\ [][NextId]_vars

\* The configured identifier fields that are present and non-empty in the
\* object of the call, by their position in the configured list.
Configured == IdentifierList(id_call.identifiers)
Matching ==
  {j \in 1..Len(Configured) :
     Configured[j] \in DOMAIN id_call.object /\ Truthy(id_call.object[Configured[j]])}
FirstMatching == CHOOSE j \in Matching : \A k \in Matching : j <= k

\* C3 as stated: the first configured field that is present and non-empty,
\* else the sentinel; hence never an empty value.
C3_FirstMatchElseSentinel ==
  pc = "id_returned" =>
    /\ id_call.id = IF Matching # {} THEN id_call.object[Configured[FirstMatching]]
                    ELSE NOIDENTIFIERFOUND
    /\ Truthy(id_call.id)

\* C3 amended: the first configured field that is present and non-empty;
\* else the value of the object's "id" field when the object has that key
\* (whatever it holds, also an empty value); else the sentinel.
C3_FirstMatchElseIdElseSentinel ==
  pc = "id_returned" =>
    id_call.id = IF Matching # {} THEN id_call.object[Configured[FirstMatching]]
                 ELSE IF "id" \in DOMAIN id_call.object THEN id_call.object["id"]
                 ELSE NOIDENTIFIERFOUND

\* The case of C3: no configured field matches, "id" is not configured, and
\* the call returned the object's id.
C3_Witness ==
  /\ pc = "id_returned" /\ Matching = {}
  /\ \A j \in 1..Len(Configured) : Configured[j] # "id"
  /\ "id" \in DOMAIN id_call.object /\ id_call.id = StrV(<< "x" >>)

(***************************************************************************)
(* create_variants / create_variant (bloomreach_generics.py)               *)
(***************************************************************************)
\* Variants a product may carry.
MaxVariants == 2

\* The rule loop of create_attributes over the plain-field table, whose
\* transforms have one outcome each.
RECURSIVE FieldRuleLoop(_, _, _, _, _)
FieldRuleLoop(attrs, attr_key, val, r, found) ==
  IF r > Len(PRODUCT_VARIANT_MAPPINGS)
  THEN IF found THEN attrs ELSE Put(attrs, attr_key, val)
  ELSE LET rule == PRODUCT_VARIANT_MAPPINGS[r]
       IN IF attr_key = rule.source_key
          THEN FieldRuleLoop(
                 RuleEffect(attrs, rule, val,
                            CHOOSE out \in TransformOutcomes(rule, val) : TRUE),
                 attr_key, val, r + 1, TRUE)
          ELSE FieldRuleLoop(attrs, attr_key, val, r + 1, found)

\* create_attributes(shopify_object, ns) of an object that has plain fields
\* only (items: its key/value pairs in order).
RECURSIVE FieldAttributes(_, _, _)
FieldAttributes(items, ns, attrs) ==
  IF items = << >> THEN attrs
  ELSE IF Contains(Head(items).k, "variants") THEN FieldAttributes(Tail(items), ns, attrs)
  ELSE FieldAttributes(Tail(items), ns,
         FieldRuleLoop(attrs, ns \o "." \o Head(items).k, Head(items).v, 1, FALSE))

\* The object as a mapping from its keys (for "k in obj" and obj[k]).
AsMap(items) ==
  [x \in {items[j].k : j \in 1..Len(items)} |->
     (CHOOSE it \in Range(items) : it.k = x).v]

\* create_variant: {"id": create_id(...), "attributes": create_attributes(..., "sv")}
create_variant(shopify_variant, identifiers) ==
  [id |-> create_id(AsMap(shopify_variant), identifiers),
   attributes |-> FieldAttributes(shopify_variant, "sv", EmptyMap)]

\* The mutant of StoreVariant: an identifier already stored keeps its entry.
StoreVariantKeepFirst(vs, variant) ==
  IF variant.id \in DOMAIN vs THEN vs
  ELSE Put(vs, variant.id, [attributes |-> variant.attributes])

\* variants[variant["id"]] = {"attributes": variant["attributes"]}
StoreVariant(vs, variant) == Put(vs, variant.id, [attributes |-> variant.attributes])

\* Inputs: raw variants, as their key/value pairs in order.
VariantSamples ==
  { << [k |-> "id", v |-> StrV(<< "x" >>)], [k |-> "title", v |-> StrV(<< "A" >>)] >>,
    << [k |-> "id", v |-> StrV(<< "x" >>)], [k |-> "sku", v |-> StrV(<< "y" >>)] >>,
    << [k |-> "id", v |-> StrV(<< "y" >>)], [k |-> "sku", v |-> StrV(<< >>)] >>,
    << [k |-> "sku", v |-> StrV(<< "x" >>)], [k |-> "title", v |-> StrV(<< "B" >>)] >>,
    << [k |-> "sku", v |-> StrV(<< "y" >>)], [k |-> "image", v |-> Null] >>,
    << [k |-> "title", v |-> StrV(<< "A" >>)] >>,
    << [k |-> "title", v |-> StrV(<< "B" >>)] >> }

\* One pass of "for variant in shopify_product['variants']".
ReadVariant ==
  /\ pc = "cv_loop" /\ budget > 0
  /\ \E variant \in VariantSamples :
       /\ raw_variants' = Append(raw_variants, variant)
       /\ variants' = StoreVariant(variants, create_variant(variant, id_call.identifiers))
  /\ budget' = budget - 1
  /\ UNCHANGED << pc, id_call >>
  /\ UNCHANGED << engineVars, resolverVars, deriveVars, driverVars >>

\* The list is exhausted (or absent, or empty): return variants.
ReturnVariants ==
  /\ pc = "cv_loop"
  /\ pc' = "cv_done"
  /\ UNCHANGED << budget, id_call, raw_variants, variants >>
  /\ UNCHANGED << engineVars, resolverVars, deriveVars, driverVars >>

InitVariants ==
  /\ pc = "cv_loop" /\ budget = MaxVariants
  /\ id_call \in [object : {EmptyMap}, identifiers : IdentifierSamples, id : {Null}]
  /\ raw_variants = << >> /\ variants = EmptyMap
  /\ EngineIdle /\ ResolverIdle /\ DeriveIdle /\ DriverIdle

NextVariants == ReadVariant \/ ReturnVariants

SpecVariants == InitVariants /\ [][NextVariants]_vars

\* The identifier the j-th raw variant resolves to.
ResolvedId(j) == create_id(AsMap(raw_variants[j]), id_call.identifiers)

\* C10: the keys of the output mapping are exactly the resolved identifiers
\* of the raw variants, and each identifier's entry is that of the last raw
\* variant, in list order, that resolves to it.
C10_LastWriteWins ==
  /\ DOMAIN variants = {ResolvedId(j) : j \in 1..Len(raw_variants)}
  /\ \A j \in 1..Len(raw_variants) :
       (\A k \in (j + 1)..Len(raw_variants) : ResolvedId(k) # ResolvedId(j)) =>
         variants[ResolvedId(j)] =
           [attributes |-> FieldAttributes(raw_variants[j], "sv", EmptyMap)]

\* The case of C10: two raw variants with different attributes resolved to
\* the same identifier, and the function returned.
C10_Witness ==
  /\ pc = "cv_done" /\ Len(raw_variants) = 2
  /\ ResolvedId(1) = ResolvedId(2)
  /\ FieldAttributes(raw_variants[1], "sv", EmptyMap)
       # FieldAttributes(raw_variants[2], "sv", EmptyMap)
  /\ Cardinality(DOMAIN variants) = 1

(***************************************************************************)
(* Reference resolver: one call of a resolver function on a list           *)
(***************************************************************************)
\* Identifiers in the list handed to a resolver function.
MaxGids == 201

ResolverFunctions ==
  {"get_metaobject_labels_with_images", "get_image_urls_from_metaobjects",
   "get_metaobject_labels_only"}

\* if not gid_list: return "{}" (labels_with_images) / [] (the other two)
ReturnEmpty ==
  /\ pc = "rs_call" /\ gid_list = << >>
  /\ ret' = IF fn = "get_metaobject_labels_with_images" THEN StrV(<< "{", "}" >>)
            ELSE ListV(<< >>)
  /\ pc' = "rs_done"
  /\ UNCHANGED << budget, fn, gid_list, i, queries, answers, acc >>
  /\ UNCHANGED << engineVars, idVars, deriveVars, driverVars >>

\* The list is not empty: the chunk loop starts at offset 0.
EnterLoop ==
  /\ pc = "rs_call" /\ gid_list # << >>
  /\ pc' = "rs_loop"
  /\ UNCHANGED << budget, fn, gid_list, i, queries, answers, acc, ret >>
  /\ UNCHANGED << engineVars, idVars, deriveVars, driverVars >>

\* chunk = gid_list[i:i + CHUNK_SIZE]; graphql_client.execute(query, {"ids": chunk})
SendQuery ==
  /\ pc = "rs_loop" /\ i < Len(gid_list)
  /\ queries' = Append(queries, Chunk(gid_list, i))
  /\ pc' = "rs_wait"
  /\ UNCHANGED << budget, fn, gid_list, i, answers, acc, ret >>
  /\ UNCHANGED << engineVars, idVars, deriveVars, driverVars >>

\* The blocking call returns; the rest of the loop body runs on the response.
ReceiveResponse ==
  /\ pc = "rs_wait"
  /\ \E kind \in ResponseKinds :
       LET r == ProcessResponse(fn, Execute(Chunk(gid_list, i), kind), acc)
       IN /\ answers' = Append(answers, kind)
          /\ IF r.ok
             THEN /\ acc' = r.val /\ i' = i + CHUNK_SIZE /\ pc' = "rs_loop"
             ELSE /\ pc' = "rs_raised" /\ UNCHANGED << acc, i >>
  /\ UNCHANGED << budget, fn, gid_list, queries, ret >>
  /\ UNCHANGED << engineVars, idVars, deriveVars, driverVars >>

\* The loop is over: the function returns the shape of its aggregate.
ReturnResult ==
  /\ pc = "rs_loop" /\ i >= Len(gid_list)
  /\ ret' = ResolverReturn(fn, acc)
  /\ pc' = "rs_done"
  /\ UNCHANGED << budget, fn, gid_list, i, queries, answers, acc >>
  /\ UNCHANGED << engineVars, idVars, deriveVars, driverVars >>

InitResolver ==
  /\ pc = "rs_call" /\ budget = 0
  /\ fn \in ResolverFunctions
  /\ \E n \in 0..MaxGids : gid_list = [j \in 1..n |-> j]
  /\ i = 0 /\ queries = << >> /\ answers = << >> /\ acc = EmptyAcc /\ ret = Null
  /\ EngineIdle /\ IdIdle /\ DeriveIdle /\ DriverIdle

NextResolver == ReturnEmpty \/ EnterLoop \/ SendQuery \/ ReceiveResponse \/ ReturnResult

SpecResolver == InitResolver /\ [][NextResolver]_vars

\* The call is over, by a return or by an exception.
ResolverEnded == pc \in {"rs_done", "rs_raised"}

\* What the node of identifier g contributes: its last label and last image.
NodeScan(g) == ScanFields(NodeOf(g).fields, "", "")

\* Every entry the nodes of chunk k resolve to is in the aggregate.
ChunkContributes(k) ==
  \A g \in Range(queries[k]) :
    ~NodeOf(g).null =>
      CASE fn = "get_metaobject_labels_with_images" ->
             (NodeScan(g).label # "" /\ NodeScan(g).image_url # "")
               => HasKey(acc.enriched_items, << NodeScan(g).label >>)
        [] fn = "get_metaobject_labels_only" ->
             FirstLabel(NodeOf(g).fields) # ""
               => FirstLabel(NodeOf(g).fields) \in Range(acc.label_list)
        [] OTHER ->
             NodeScan(g).label # "" =>
               IF NodeScan(g).image_url # ""
               THEN [name |-> NodeScan(g).label, imageUrl |-> NodeScan(g).image_url]
                      \in Range(acc.results_with_images)
               ELSE NodeScan(g).label \in Range(acc.labels_without_images)

\* ceil(n / 100)
CeilHundredths(n) == IF n % 100 = 0 THEN n \div 100 ELSE n \div 100 + 1

\* The concatenation of the chunks sent so far.
RECURSIVE Concat(_)
Concat(seqs) == IF seqs = << >> THEN << >> ELSE Head(seqs) \o Concat(Tail(seqs))

\* C4: in every resolver function an undecodable response costs only its
\* own chunk: the error does not leave the function, the later chunks are
\* still queried, and what the other chunks resolved is in the aggregate.
C4_DecodeFailureContained ==
  /\ pc = "rs_raised" => answers[Len(answers)] # "undecodable"
  /\ pc = "rs_done" =>
       /\ Len(queries) = CeilHundredths(Len(gid_list))
       /\ \A k \in 1..Len(answers) : answers[k] = "ok" => ChunkContributes(k)

\* C5: resolving N identifiers issues exactly ceil(N/100) queries, each of at
\* most 100 identifiers, the chunks being consecutive slices whose
\* concatenation is the list, and a query is sent only after the response to
\* the one before it has been processed.
C5_ExactlyCeilQueries ==
  /\ \A k \in 1..Len(queries) : Len(queries[k]) <= 100
  /\ Concat(queries) = SubSeq(gid_list, 1, Len(Concat(queries)))
  /\ Len(queries) = Len(answers) + (IF pc = "rs_wait" THEN 1 ELSE 0)
  /\ ResolverEnded =>
       /\ Len(queries) = CeilHundredths(Len(gid_list))
       /\ Concat(queries) = gid_list

(***************************************************************************)
(* Derived-field stage: create_product of bloomreach_products.py           *)
(***************************************************************************)
\* Variants of the product handed to the derived-field stage.
MaxProductVariants == 2

\* The fixed "No preview available" URL of both thumb_image fallbacks.
PlaceholderUrl == StrV(<< "No_preview_available.png" >>)

Url == << "u", "r", "l" >>

\* A value that is a list of dicts (sv.selectedOptions): each item the
\* <<k1, v1, ...>> of one dict.
DictsV(items) == [t |-> "dicts", n |-> 0, s |-> items]

\* "needle in hay" for two strs.
StrContains(hay, needle) ==
  \E j \in 0..(Len(hay) - Len(needle)) : SubSeq(hay, j + 1, j + Len(needle)) = needle

\* What one label source adds: the non-empty stripped pieces of a str, the
\* truthy items of a list, nothing for any other value or a missing key.
LabelsOf(attrs, k) ==
  IF k \notin DOMAIN attrs THEN << >>
  ELSE LET val == attrs[k]
           pieces == Split(val.s[1], ",")
           stripped == [j \in 1..Len(pieces) |-> Strip(pieces[j])]
       IN IF IsStr(val) THEN SelectSeq(stripped, LAMBDA v : v # << >>)
          ELSE IF IsList(val) THEN SelectSeq(val.s, LAMBDA v : v # << >> /\ v # NoneTok)
          ELSE << >>

\* The mutant of AdditionalLabel: the key the namespacing stage gives a
\* variant metafield custom.additional_label.
AdditionalLabelSvm == "svm.custom.additional_label"

AdditionalLabel == "spvm.custom.additional_label"
ProductLabelsValues == "spvm.custom.product_labels_values"

\* merge_labels(attributes, new_key)
merge_labels(attrs, new_key) ==
  LET present == new_key \in DOMAIN attrs
      existing_labels ==
        IF ~present THEN << >>
        ELSE IF IsStr(attrs[new_key]) THEN << attrs[new_key].s[1] >>
        ELSE IF IsList(attrs[new_key]) THEN attrs[new_key].s
        ELSE << >>
      extended ==
        IF present THEN existing_labels \o LabelsOf(attrs, AdditionalLabel)
        ELSE existing_labels \o LabelsOf(attrs, AdditionalLabel)
                             \o LabelsOf(attrs, ProductLabelsValues)
  IN IF extended # << >> THEN Put(attrs, new_key, ListV(DedupAcc(extended, {})))
     ELSE attrs

\* The product-level labels: both sources always, stored as labels_new.
ProductLabels(in_pa, out_pa) ==
  LET labels_list == LabelsOf(in_pa, AdditionalLabel) \o LabelsOf(in_pa, ProductLabelsValues)
  IN IF labels_list # << >> THEN Put(out_pa, "labels_new", ListV(DedupAcc(labels_list, {})))
     ELSE out_pa

\* The image object under key k is there, truthy, and has a "url" key.
HasUrlKey(attrs, k) ==
  k \in DOMAIN attrs /\ Truthy(attrs[k]) /\ IsDict(attrs[k]) /\ HasKey(attrs[k].s, Url)

UrlOfImage(attrs, k) == Wrap(DictItem(attrs[k].s, Url))

\* The two thumb_image blocks at product level: the first with the
\* fallback, the second assigning the url again whenever the key "url" is
\* there.
ProductThumb(in_pa, out_pa) ==
  LET first ==
        IF HasUrlKey(in_pa, "sp.featuredImage") /\ Truthy(UrlOfImage(in_pa, "sp.featuredImage"))
        THEN Put(out_pa, "thumb_image", UrlOfImage(in_pa, "sp.featuredImage"))
        ELSE Put(out_pa, "thumb_image", PlaceholderUrl)
  IN IF HasUrlKey(in_pa, "sp.featuredImage")
     THEN Put(first, "thumb_image", UrlOfImage(in_pa, "sp.featuredImage"))
     ELSE first

\* The mutant of PriceLogic: the compare-at price counts whenever it is
\* there and not None.
PriceLogicNotNone(in_va, out_va) ==
  IF "sv.compareAtPrice" \in DOMAIN in_va /\ in_va["sv.compareAtPrice"] # Null
  THEN IF in_va["sv.compareAtPrice"] = in_va["sv.price"]
       THEN Put(out_va, "price", in_va["sv.compareAtPrice"])
       ELSE Put(Put(out_va, "price", in_va["sv.compareAtPrice"]),
                "sale_price", in_va["sv.price"])
  ELSE Put(out_va, "price", in_va["sv.price"])

\* --- PRICE LOGIC --- (of a variant that has sv.price)
PriceLogic(in_va, out_va) ==
  IF "sv.compareAtPrice" \in DOMAIN in_va /\ Truthy(in_va["sv.compareAtPrice"])
  THEN IF in_va["sv.compareAtPrice"] = in_va["sv.price"]
       THEN Put(out_va, "price", in_va["sv.compareAtPrice"])
       ELSE Put(Put(out_va, "price", in_va["sv.compareAtPrice"]),
                "sale_price", in_va["sv.price"])
  ELSE Put(out_va, "price", in_va["sv.price"])

\* --- OPTIONS --- one option of sv.selectedOptions
OptionStep(out_va, option) ==
  LET ok == HasKey(option, << "name" >>) /\ HasKey(option, << "value" >>)
      name == DictItem(option, << "name" >>)
      val == Wrap(DictItem(option, << "value" >>))
      withColor == IF ok /\ StrContains(name, << "Color" >>)
                   THEN Put(out_va, "color", val) ELSE out_va
  IN IF ok /\ StrContains(name, << "Size" >>) THEN Put(withColor, "size", val)
     ELSE withColor

RECURSIVE OptionLoop(_, _)
OptionLoop(out_va, options) ==
  IF options = << >> THEN out_va
  ELSE OptionLoop(OptionStep(out_va, Head(options)), Tail(options))

OptionsLogic(in_va, out_va) ==
  IF "sv.selectedOptions" \in DOMAIN in_va /\ Truthy(in_va["sv.selectedOptions"])
  THEN OptionLoop(out_va, in_va["sv.selectedOptions"].s)
  ELSE out_va

\* The mutant of AvailabilityLogic: availability mirrors the input flag.
AvailabilityLogicMirror(in_va, out_va) ==
  IF "sv.availableForSale" \in DOMAIN in_va /\ Truthy(in_va["sv.availableForSale"])
  THEN Put(out_va, "availability", BoolV(TRUE))
  ELSE Put(Put(out_va, "availability", BoolV(FALSE)), "sv.availableForSale", BoolV(FALSE))

\* --- AVAILABILITY ---
AvailabilityLogic(in_va, out_va) ==
  IF "sv.availableForSale" \in DOMAIN in_va /\ Truthy(in_va["sv.availableForSale"])
  THEN Put(out_va, "availability", BoolV(TRUE))
  ELSE Put(Put(out_va, "availability", BoolV(TRUE)), "sv.availableForSale", BoolV(FALSE))

\* --- IMAGE --- of a variant: nothing is assigned without a truthy sv.image.
VariantThumb(in_va, out_va) ==
  IF "sv.image" \in DOMAIN in_va /\ Truthy(in_va["sv.image"])
  THEN IF HasUrlKey(in_va, "sv.image") /\ Truthy(UrlOfImage(in_va, "sv.image"))
       THEN Put(out_va, "thumb_image", UrlOfImage(in_va, "sv.image"))
       ELSE Put(out_va, "thumb_image", PlaceholderUrl)
  ELSE out_va

\* The body of the variant loop, for a variant that has sv.price.
DeriveVariantAttributes(in_va) ==
  merge_labels(
    VariantThumb(in_va,
      AvailabilityLogic(in_va,
        OptionsLogic(in_va,
          PriceLogic(in_va, in_va)))),
    "labels")

\* shopify_url, and the prefix of every product url.
ShopifyUrl == "shop.example"
UrlPrefix == << "https://", ShopifyUrl, "/products/" >>

\* The image objects a featuredImage / image attribute can hold.
ImageSamples ==
  { Null, DictV(<< >>), DictV(<< Url, << >> >>), DictV(<< Url, NoneTok >>),
    DictV(<< Url, << "i", "1" >> >>), DictV(<< << "alt" >>, << "x" >> >>) }

\* The values of the two label sources.
LabelSamples ==
  { StrV(<< "a", ",", " ", "b", ",", "a", "," >>), StrV(<< >>),
    ListV(<< << "b" >>, << >>, << "c" >> >>), Null }

\* The product attribute maps handed to the stage: a base product, and the
\* base with one concern varied at a time.
BaseProductAttributes == "sp.handle" :> StrV(<< "h" >>)

ProductAttributeSamples ==
  {BaseProductAttributes, EmptyMap}
    \cup {Put(BaseProductAttributes, "sp.featuredImage", img) : img \in ImageSamples}
    \cup {Put(BaseProductAttributes, AdditionalLabel, l) : l \in LabelSamples}
    \cup {Put(Put(BaseProductAttributes, AdditionalLabel, l), ProductLabelsValues, m) :
            l \in LabelSamples, m \in LabelSamples \ {Null}}

PriceSamples == {IntV(1), IntV(2)}
CompareAtSamples == {Null, IntV(0), IntV(1), IntV(2), StrV(<< >>)}

OptionSamples ==
  { DictsV(<< >>),
    DictsV(<< << << "name" >>, << "Frame", " ", "Color" >>, << "value" >>, << "red" >> >>,
              << << "name" >>, << "Size" >>, << "value" >>, << "M" >> >> >>),
    DictsV(<< << << "name" >>, << "Material" >>, << "value" >>, << "oak" >> >>,
              << << "name" >>, << "Color" >> >> >>) }

BaseVariantAttributes == "sv.price" :> IntV(1)

VariantAttributeSamples ==
  {EmptyMap, "sv.compareAtPrice" :> IntV(2)}
    \cup {"sv.price" :> p : p \in PriceSamples}
    \cup {Put("sv.price" :> p, "sv.compareAtPrice", c) :
            p \in PriceSamples, c \in CompareAtSamples}
    \cup {Put(BaseVariantAttributes, "sv.image", img) : img \in ImageSamples}
    \cup {Put(BaseVariantAttributes, "sv.availableForSale", BoolV(b)) : b \in BOOLEAN}
    \cup {Put(BaseVariantAttributes, "sv.selectedOptions", o) : o \in OptionSamples}
    \cup {Put(BaseVariantAttributes, AdditionalLabel, l) : l \in LabelSamples}
    \cup {Put(Put(BaseVariantAttributes, "labels", e), AdditionalLabel, l) :
            e \in {StrV(<< "a" >>), ListV(<< << "a" >>, << "a" >> >>), ListV(<< >>), IntV(1)},
            l \in {StrV(<< "a", ",", "b" >>), Null}}
    \cup {Put(Put(BaseVariantAttributes, AdditionalLabel, l), ProductLabelsValues, m) :
            l \in {StrV(<< "a", ",", "b" >>)}, m \in LabelSamples}

\* The name of the j-th variant of the product (the keys of a dict differ).
VariantId(j) == "v" \o ToString(j)

\* Lines 82-125: the output product is set up and its product-level
\* attributes are derived; a product without sp.handle raises KeyError.
DeriveProductAttributes ==
  /\ pc = "cp_product"
  /\ IF "sp.handle" \in DOMAIN product.attributes
     THEN /\ out_product' =
               [id |-> product.id,
                attributes |->
                  ProductThumb(product.attributes,
                    ProductLabels(product.attributes,
                      Put(product.attributes, "url",
                          StrV(UrlPrefix \o product.attributes["sp.handle"].s[1])))),
                variants |-> EmptyMap]
          /\ pc' = "cp_variants"
     ELSE /\ out_product' = [id |-> product.id, attributes |-> product.attributes,
                             variants |-> EmptyMap]
          /\ pc' = "cp_raised"
  /\ UNCHANGED << budget, product >>
  /\ UNCHANGED << engineVars, idVars, resolverVars, driverVars >>

\* One turn of the loop over product["variants"].items(): the variant's
\* entry is created empty, and filled unless sv.price is missing (KeyError).
VariantTurn(in_va) ==
  LET v_id == VariantId(Cardinality(DOMAIN product.variants) + 1)
  IN /\ product' = [product EXCEPT !.variants = Put(@, v_id, "attributes" :> in_va)]
     /\ IF "sv.price" \in DOMAIN in_va
        THEN /\ out_product' =
                  [out_product EXCEPT !.variants =
                     Put(@, v_id, "attributes" :> DeriveVariantAttributes(in_va))]
             /\ pc' = "cp_variants"
        ELSE /\ out_product' = [out_product EXCEPT !.variants = Put(@, v_id, EmptyMap)]
             /\ pc' = "cp_raised"

\* A turn of the loop on a variant drawn from the samples.
DeriveVariant ==
  /\ pc = "cp_variants"
  /\ budget > 0
  /\ \E in_va \in VariantAttributeSamples : VariantTurn(in_va)
  /\ budget' = budget - 1
  /\ UNCHANGED << engineVars, idVars, resolverVars, driverVars >>

\* return out_product
ReturnProduct ==
  /\ pc = "cp_variants"
  /\ pc' = "cp_done"
  /\ UNCHANGED << budget, product, out_product >>
  /\ UNCHANGED << engineVars, idVars, resolverVars, driverVars >>

InitDerive ==
  /\ pc = "cp_product"
  /\ budget = MaxProductVariants
  /\ \E a \in ProductAttributeSamples :
       product = [id |-> StrV(<< "p" >>), attributes |-> a, variants |-> EmptyMap]
  /\ out_product = NoProduct
  /\ EngineIdle /\ IdIdle /\ ResolverIdle /\ DriverIdle

NextDerive == DeriveProductAttributes \/ DeriveVariant \/ ReturnProduct

SpecDerive == InitDerive /\ [][NextDerive]_vars

\* The variants whose derivation has completed, with input and output.
DerivedVariants ==
  {v \in DOMAIN out_product.variants : "attributes" \in DOMAIN out_product.variants[v]}
InVa(v) == product.variants[v]["attributes"]
OutVa(v) == out_product.variants[v]["attributes"]

\* The three tiers, for a given reading of "the compare-at price is present".
Tiered(v, cPresent) ==
  LET p == InVa(v)["sv.price"]
      c == InVa(v)["sv.compareAtPrice"]
  IN /\ "price" \in DOMAIN OutVa(v)
     /\ IF cPresent /\ c = p
        THEN OutVa(v)["price"] = p /\ "sale_price" \notin DOMAIN OutVa(v)
        ELSE IF cPresent
        THEN /\ OutVa(v)["price"] = c
             /\ "sale_price" \in DOMAIN OutVa(v)
             /\ OutVa(v)["sale_price"] = p
        ELSE OutVa(v)["price"] = p /\ "sale_price" \notin DOMAIN OutVa(v)

\* C6 as stated: every derived variant with base price p and compare-at
\* price c has price = p and no sale_price when c is there (not None) and
\* equals p; price = c and sale_price = p when c is there and differs from
\* p; price = p and no sale_price when c is absent or None.
C6_PriceTiering ==
  \A v \in DerivedVariants :
    Tiered(v, "sv.compareAtPrice" \in DOMAIN InVa(v)
              /\ InVa(v)["sv.compareAtPrice"] # Null)

\* C6 amended: the same three tiers, where the compare-at price counts as
\* present only when it is truthy; a compare-at price that is absent, None,
\* zero or empty gives price = p and no sale_price.
C6_PriceTieringTruthy ==
  \A v \in DerivedVariants :
    Tiered(v, "sv.compareAtPrice" \in DOMAIN InVa(v)
              /\ Truthy(InVa(v)["sv.compareAtPrice"]))

\* A derived variant whose compare-at price is there, not None, but falsy,
\* next to one whose compare-at price is truthy and differs from the price.
C6_Witness ==
  /\ \E v \in DerivedVariants :
       /\ "sv.compareAtPrice" \in DOMAIN InVa(v)
       /\ InVa(v)["sv.compareAtPrice"] = IntV(0)
       /\ OutVa(v)["price"] = InVa(v)["sv.price"]
       /\ "sale_price" \notin DOMAIN OutVa(v)
  /\ \E v \in DerivedVariants :
       /\ "sv.compareAtPrice" \in DOMAIN InVa(v)
       /\ Truthy(InVa(v)["sv.compareAtPrice"])
       /\ "sale_price" \in DOMAIN OutVa(v)

\* C7: in every output variant that has both, sale_price <= price.
C7_SaleNotAbovePrice ==
  \A v \in DerivedVariants :
    ("sale_price" \in DOMAIN OutVa(v) /\ "price" \in DOMAIN OutVa(v)) =>
      OutVa(v)["sale_price"].n <= OutVa(v)["price"].n

\* The thumb_image the fallback rule asks for, from the image under key k.
ExpectedThumb(attrs, k) ==
  IF HasUrlKey(attrs, k) /\ Truthy(UrlOfImage(attrs, k))
  THEN UrlOfImage(attrs, k)
  ELSE PlaceholderUrl

\* C8: once the product level is derived, and for each derived variant,
\* thumb_image is the image object's url when the object is there with a
\* non-empty url, and the placeholder URL otherwise; it is never empty.
C8_ImageFallback ==
  /\ pc \in {"cp_variants", "cp_done"} =>
       /\ "thumb_image" \in DOMAIN out_product.attributes
       /\ out_product.attributes["thumb_image"] =
            ExpectedThumb(product.attributes, "sp.featuredImage")
       /\ Truthy(out_product.attributes["thumb_image"])
  /\ \A v \in DerivedVariants :
       /\ "thumb_image" \in DOMAIN OutVa(v)
       /\ OutVa(v)["thumb_image"] = ExpectedThumb(InVa(v), "sv.image")
       /\ Truthy(OutVa(v)["thumb_image"])

(***************************************************************************)
(* Pipeline driver: main and create_products of bloomreach_generics.py     *)
(***************************************************************************)
\* Lines of the input file.
MaxLines == 3

\* The defaults of --pid-props and --vid-props.
PidProps == StrV(<< "h", "a", "n", "d", "l", "e" >>)
VidProps == StrV(<< "s", "k", "u" >>)

\* create_product of a raw product that has plain fields only: no
\* "variants" key, hence no variants.
create_product(shopify_product, pid_identifiers, vid_identifiers) ==
  [id |-> create_id(AsMap(shopify_product), pid_identifiers),
   attributes |-> FieldAttributes(shopify_product, "sp", EmptyMap),
   variants |-> EmptyMap]

\* Inputs: the lines of the file.  "object": JSON text of a raw product;
\* "garbage": text json.loads raises on; "nonobject": JSON text of a value
\* that is not an object, on which create_product raises; "unreadable":
\* the gzip stream fails while the line is read.
LineSamples ==
  { [kind |-> "object", obj |-> << [k |-> "handle", v |-> StrV(<< "h", "1" >>)],
                                   [k |-> "tags", v |-> StrV(<< "a", ",", "b" >>)] >>],
    [kind |-> "object", obj |-> << [k |-> "handle", v |-> StrV(<< "h", "2" >>)] >>],
    [kind |-> "object", obj |-> << [k |-> "id", v |-> StrV(<< "x" >>)],
                                   [k |-> "descriptionHtml", v |-> Null] >>],
    [kind |-> "garbage", obj |-> << >>],
    [kind |-> "nonobject", obj |-> << >>],
    [kind |-> "unreadable", obj |-> << >>] }

\* The mutant of ReadStep: a line that fails is skipped.
ReadStepSkipping(ps, line) ==
  IF line.kind = "object"
  THEN [raised |-> FALSE,
        products |-> Append(ps, create_product(line.obj, PidProps, VidProps))]
  ELSE [raised |-> FALSE, products |-> ps]

\* products.append(create_product(json.loads(line), ...)) for one line:
\* nothing catches what reading, json.loads or create_product raises.
ReadStep(ps, line) ==
  IF line.kind = "object"
  THEN [raised |-> FALSE,
        products |-> Append(ps, create_product(line.obj, PidProps, VidProps))]
  ELSE [raised |-> TRUE, products |-> ps]

\* One turn of "for line in file" in create_products.
ReadLine ==
  /\ pc = "m_read" /\ budget > 0
  /\ \E line \in LineSamples :
       /\ lines' = Append(lines, line)
       /\ products' = ReadStep(products, line).products
       /\ pc' = IF ReadStep(products, line).raised THEN "m_raised" ELSE "m_read"
  /\ budget' = budget - 1
  /\ UNCHANGED sink
  /\ UNCHANGED << engineVars, idVars, resolverVars, deriveVars >>

\* End of file: create_products returns, main opens the output file.
OpenOutput ==
  /\ pc = "m_read"
  /\ sink' = [opened |-> TRUE, records |-> << >>]
  /\ pc' = "m_write"
  /\ UNCHANGED << budget, lines, products >>
  /\ UNCHANGED << engineVars, idVars, resolverVars, deriveVars >>

\* writer.write(object) for the next object of products: sink.records is
\* the sequence of objects handed to the writer.
WriteRecord ==
  /\ pc = "m_write"
  /\ Len(sink.records) < Len(products)
  /\ sink' = [sink EXCEPT !.records = Append(@, products[Len(sink.records) + 1])]
  /\ UNCHANGED << pc, budget, lines, products >>
  /\ UNCHANGED << engineVars, idVars, resolverVars, deriveVars >>

\* writer.close() and the end of the with block.
CloseOutput ==
  /\ pc = "m_write"
  /\ Len(sink.records) = Len(products)
  /\ pc' = "m_done"
  /\ UNCHANGED << budget, lines, products, sink >>
  /\ UNCHANGED << engineVars, idVars, resolverVars, deriveVars >>

InitDriver ==
  /\ pc = "m_read" /\ budget = MaxLines
  /\ lines = << >> /\ products = << >> /\ sink = NoSink
  /\ EngineIdle /\ IdIdle /\ ResolverIdle /\ DeriveIdle

NextDriver == ReadLine \/ OpenOutput \/ WriteRecord \/ CloseOutput

SpecDriver == InitDriver /\ [][NextDriver]_vars

\* C9: the records written are, in order, the transforms of the first input
\* records; the output is opened and written only once every input record
\* has been read and transformed; a run that fails on an input record ends
\* with the output unopened and empty; a run that completes has written
\* exactly one record per input record.
C9_AllOrNothing ==
  /\ Len(sink.records) <= Len(lines)
  /\ \A j \in 1..Len(sink.records) :
       /\ lines[j].kind = "object"
       /\ sink.records[j] = create_product(lines[j].obj, PidProps, VidProps)
  /\ (sink.opened \/ sink.records # << >>) =>
       /\ pc \in {"m_write", "m_done"}
       /\ Len(products) = Len(lines)
       /\ \A j \in 1..Len(lines) : lines[j].kind = "object"
  /\ pc = "m_raised" => sink = NoSink
  /\ pc = "m_done" => Len(sink.records) = Len(lines)

\* The case of C9: the run failed on an input record after it had read and
\* transformed two different records, and nothing was written.
C9_Witness ==
  /\ pc = "m_raised"
  /\ Len(products) = 2 /\ products[1] # products[2]
  /\ lines[3].kind # "object"
  /\ sink = NoSink

(***************************************************************************)
(* Determinism of the mapping pass                                         *)
(***************************************************************************)
\* The transforms that do not ask the service: their outcome can depend on
\* the value alone.
ServiceFree(rule) == rule.transform # "labels_with_images"

\* C11: a second run over the same value gives what this run gave: for the
\* rule just applied (a transform that does not query the service, so the
\* responses are trivially the same), every outcome the transform can
\* produce on the value equals the outcome this run produced.
C11_Deterministic ==
  (applied.hit /\ ServiceFree(applied.rule)) =>
    \A o \in TransformOutcomes(applied.rule, applied.value) : o = applied.out

LabelSources(attrs) ==
  (IF "labels" \notin DOMAIN attrs THEN << >>
   ELSE IF IsStr(attrs["labels"]) THEN << attrs["labels"].s[1] >>
   ELSE IF IsList(attrs["labels"]) THEN attrs["labels"].s
   ELSE << >>)
    \o LabelsOf(attrs, AdditionalLabel)
    \o (IF "labels" \in DOMAIN attrs THEN << >> ELSE LabelsOf(attrs, ProductLabelsValues))

\* The place of the first occurrence of x in the sequence C.
FirstIndex(C, x) ==
  CHOOSE k \in DOMAIN C : C[k] = x /\ \A m \in 1..(k - 1) : C[m] # x

\* L holds the values of C, each once, in the order of their first
\* occurrence in C.
FirstOccurrenceOrder(L, C) ==
  /\ Range(L) = Range(C)
  /\ \A a, b \in DOMAIN L : a < b => L[a] # L[b]
  /\ \A a, b \in DOMAIN L : a < b => FirstIndex(C, L[a]) < FirstIndex(C, L[b])

\* C13: the labels stored for a derived variant (and labels_new of the
\* product) hold each collected value once, in first-occurrence order of
\* the concatenated sources, and applying merge_labels again to the output
\* attribute map leaves it unchanged.
C13_LabelMergeIdempotent ==
  /\ \A v \in DerivedVariants :
       /\ merge_labels(OutVa(v), "labels") = OutVa(v)
       /\ LabelSources(InVa(v)) # << >> =>
            /\ "labels" \in DOMAIN OutVa(v)
            /\ IsList(OutVa(v)["labels"])
            /\ FirstOccurrenceOrder(OutVa(v)["labels"].s, LabelSources(InVa(v)))
  /\ (pc \in {"cp_variants", "cp_done"} /\ "labels_new" \in DOMAIN out_product.attributes) =>
       FirstOccurrenceOrder(out_product.attributes["labels_new"].s,
                            LabelsOf(product.attributes, AdditionalLabel)
                              \o LabelsOf(product.attributes, ProductLabelsValues))

\* The case of C13: a variant whose labels held a duplicate and whose
\* additional label repeats one of them and adds one.
C13_Witness ==
  \E v \in DerivedVariants :
    /\ "labels" \in DOMAIN InVa(v)
    /\ InVa(v)["labels"] = ListV(<< << "a" >>, << "a" >> >>)
    /\ LabelsOf(InVa(v), AdditionalLabel) = << << "a" >>, << "b" >> >>
    /\ OutVa(v)["labels"] = ListV(<< << "a" >>, << "b" >> >>)

(***************************************************************************)
(* Rules that do not preserve their source                                 *)
(***************************************************************************)
\* The rules of the running pass: the table of create_attributes' loop, or
\* the rules handed to apply_mappings.
RulesOfPass ==
  IF pc \in {"am_loop", "am_done", "am_raised"} THEN Range(mappings) ELSE Range(Table)

\* No other rule of the pass preserves or targets the source key of rule.
SourceUntouchedByOthers(rule) ==
  \A r \in RulesOfPass \ {rule} :
    /\ r.target_key # rule.source_key
    /\ ~(r.source_key = rule.source_key /\ r.save_original # 0)

\* C14: after a rule with preserveSource = 0 and sourceKey # targetKey has
\* been applied to a present source (no other rule preserving or targeting
\* that source, no exception leaving the pass), the attribute map contains
\* targetKey and does not contain sourceKey.
C14_OnlyTargetSaved ==
  (/\ applied.hit /\ NotPropagated
   /\ applied.rule.save_original = 0
   /\ applied.rule.source_key # applied.rule.target_key
   /\ SourceUntouchedByOthers(applied.rule)) =>
    /\ applied.rule.target_key \in DOMAIN attributes
    /\ applied.rule.source_key \notin DOMAIN attributes

(***************************************************************************)
(* Frame of the derived-field stage                                        *)
(***************************************************************************)
\* The namespaces of the keys that come from Shopify, and the field names
\* the stage reads or writes under them.
ShopifyPrefixes == {"sp.", "spm.", "sv.", "svm."}
ShopifyFieldNames ==
  {"handle", "featuredImage", "price", "compareAtPrice", "image",
   "availableForSale", "selectedOptions"}

\* The key k starts with sp., spm., sv. or svm.
ShopifyPrefixed(k) ==
  \E pre \in ShopifyPrefixes, name \in ShopifyFieldNames : k = pre \o name

\* Input and output attribute maps agree on the Shopify-prefixed keys.
SameShopifyAttributes(in_a, out_a) ==
  \A k \in DOMAIN in_a \cup DOMAIN out_a :
    ShopifyPrefixed(k) =>
      (k \in DOMAIN in_a /\ k \in DOMAIN out_a /\ out_a[k] = in_a[k])

\* C15: the stage leaves the Shopify-prefixed attributes alone: each one of
\* the input product and of every derived variant is in the output with
\* the same value, and the output has no such key the input did not have.
C15_ShopifyAttributesUnmodified ==
  /\ pc \in {"cp_variants", "cp_done"} =>
       SameShopifyAttributes(product.attributes, out_product.attributes)
  /\ \A v \in DerivedVariants : SameShopifyAttributes(InVa(v), OutVa(v))

(***************************************************************************)
(* The two stages in sequence: create_attributes of bloomreach_generics.py *)
(* on a raw object, then create_product of bloomreach_products.py on a     *)
(* record carrying the attribute map it returned                           *)
(***************************************************************************)
\* The namespacing stage has returned: its attribute map becomes the
\* product's attributes (namespace sp), or those of the one variant of a
\* base product (namespace sv), and create_product is called.
CallDerivedStage ==
  /\ pc = "ca_done"
  /\ product' = [id |-> StrV(<< "p" >>),
                 attributes |-> IF namespace = "sp" THEN attributes
                                ELSE BaseProductAttributes,
                 variants |-> EmptyMap]
  /\ pc' = "cp_product"
  /\ UNCHANGED << budget, out_product >>
  /\ UNCHANGED << engineVars, idVars, resolverVars, driverVars >>

\* The turn of the variant loop on the variant that carries the attribute
\* map of the namespacing stage.
DeriveStagedVariant ==
  /\ pc = "cp_variants"
  /\ namespace = "sv" /\ product.variants = EmptyMap
  /\ VariantTurn(attributes)
  /\ UNCHANGED budget
  /\ UNCHANGED << engineVars, idVars, resolverVars, driverVars >>

\* return out_product, once the staged variant (if any) is through.
ReturnStagedProduct ==
  /\ namespace = "sv" => product.variants # EmptyMap
  /\ ReturnProduct

InitPipeline == InitEngine /\ pc = "ca_key"

NextPipeline ==
  \/ ReadVariantsKey
  \/ ReadCollectionsKey
  \/ ReadField
  \/ ReadMetafieldsKey
  \/ ReadMetafield
  \/ EndMetafields
  \/ ApplyRule
  \/ EndRules
  \/ ReturnAttributes
  \/ CallDerivedStage
  \/ DeriveProductAttributes
  \/ DeriveStagedVariant
  \/ ReturnStagedProduct

SpecPipeline == InitPipeline /\ [][NextPipeline]_vars

\* The keys under "spvm." that the raw objects of the model could give
\* rise to, the two label source keys among them.
SpvmKeys ==
  {"spvm." \o m.namespace \o "." \o m.key : m \in MetafieldSamples}
    \cup {"spvm." \o f.k : f \in FieldSamples}

\* The values held under "labels".
LabelValues(attrs) ==
  IF "labels" \notin DOMAIN attrs THEN {}
  ELSE IF IsList(attrs["labels"]) THEN Range(attrs["labels"].s)
  ELSE IF IsStr(attrs["labels"]) THEN {attrs["labels"].s[1]}
  ELSE {}

\* C16: no key of the attribute map create_attributes builds starts with
\* "spvm."; so in the derived-field stage run on that map neither label
\* source key is present, labels_new is never written for the product, and
\* merge_labels adds no value to the variant's labels.
C16_LabelSourcesNeverPresent ==
  /\ DOMAIN attributes \cap SpvmKeys = {}
  /\ {"spvm.custom.additional_label", "spvm.custom.product_labels_values"} \subseteq SpvmKeys
  /\ "labels_new" \notin DOMAIN out_product.attributes
  /\ \A v \in DerivedVariants : LabelValues(OutVa(v)) \subseteq LabelValues(InVa(v))

\* The case of C16: the raw variant carried the metafield
\* custom.additional_label, the namespacing stage stored it under svm., and
\* the derived variant has no labels.
C16_Witness ==
  /\ pc = "cp_done"
  /\ \E v \in DerivedVariants :
       /\ "svm.custom.additional_label" \in DOMAIN InVa(v)
       /\ InVa(v) = attributes
       /\ "labels" \notin DOMAIN OutVa(v)

=============================================================================
